---- MODULE Spec2Model ----
(***************************************************************************)
(* Model of packages/trigger-sdk/src/client.ts: the TriggerClient runtime. *)
(* listen() opens the connection, builds the RPC channel with the          *)
(* TRIGGER_WORKFLOW handler, and starts the INITIALIZE_HOST handshake      *)
(* through the retrying #send.  Each received TRIGGER_WORKFLOW message     *)
(* runs the user's run function and reports its outcome with               *)
(* run().then(COMPLETE_WORKFLOW_RUN).catch(SEND_WORKFLOW_ERROR).           *)
(***************************************************************************)
EXTENDS Integers, FiniteSets, Sequences, TLC

(* ------------------------------ bounds --------------------------------- *)

\* number of TRIGGER_WORKFLOW messages the remote side delivers
MaxInvocations == 2

\* number of TimeoutErrors one #send call may meet
MaxTimeouts == 2

\* number of ctx.logger / ctx.fireEvent calls the user code makes in total
MaxCtxCalls == 1

(* ----------------------------- constants ------------------------------- *)

\* #retryIntervalMs: number = 3000
retryIntervalMs == 3000

\* the origin of the calls made by #initializeHost (invocations are 1..n)
HostOrigin == 0

Invocations == 1 .. MaxInvocations

\* this.#trigger.id, this.#trigger.name, this.#apiKey of the one client
TriggerId == "wf1"

TriggerName == "demo"

ApiKey == "key"

\* a value that is undefined (an option not given, a variable not set)
Undefined == "undefined"

\* this.#options.apiKey and process.env.TRIGGER_API_KEY
OptionApiKeys == {Undefined, "", ApiKey}

EnvApiKeys == {Undefined, ApiKey}

\* a ?? b
Coalesce(a, b) == IF a = Undefined THEN b ELSE a

\* a check that only looks for the empty string
ConstructorThrowsOnEmptyOnly(key) == key = ""

\* if (!apiKey) throw new Error("Cannot connect to Trigger because of invalid API Key: ...")
ConstructorThrows(key) == key = Undefined \/ key = ""

(* ------------------------------ values --------------------------------- *)

\* Values a run function can resolve with (a number, a string holding the
\* same digits, and an object that refers to itself).
Values ==
    { [type |-> "number", repr |-> "2"],
      [type |-> "string", repr |-> "2"],
      [type |-> "circular", repr |-> ""] }

\* JSON.stringify throws a TypeError on a circular structure.
StringifyThrows(v) == v.type = "circular"

\* JSON.stringify(output): a number prints as its digits, a string is quoted.
JSONstringify(v) ==
    IF v.type = "string" THEN "\"" \o v.repr \o "\"" ELSE v.repr

\* The thrown values of the model: instances of Error (isError), among them
\* the channel's TimeoutError, and values that are no Error.
MkError(name, message) ==
    [isError |-> TRUE, name |-> name, message |-> message,
     stack |-> name \o ": " \o message \o "\n    at run"]

UserError == MkError("X", "Y")

TimeoutErr == MkError("TimeoutError", "timed out")

ValidationErr == MkError("ZodError", "invalid")

StringifyErr == MkError("TypeError", "Converting circular structure to JSON")

PlainString == [isError |-> FALSE, name |-> "", message |-> "boom", stack |-> ""]

PlainObject == [isError |-> FALSE, name |-> "X", message |-> "Y", stack |-> "trace"]

\* what a run function can reject with
Thrown == {UserError, PlainString, PlainObject}

\* what serverRPC.send can reject with
SendErrors == {TimeoutErr, ValidationErr}

\* a catch that takes every Error for a timeout
IsTimeoutErrorAnyError(err) == err.isError

\* err instanceof TimeoutError
IsTimeoutError(err) == err.isError /\ err.name = "TimeoutError"

\* responses of the remote side to INITIALIZE_HOST
HostResponses ==
    { [type |-> "success", message |-> ""],
      [type |-> "error", message |-> "unknown workflow"] }

NoError == [isError |-> FALSE, name |-> "", message |-> "", stack |-> ""]

NoData == [id |-> "", workflowId |-> "", input |-> ""]

\* the TRIGGER_WORKFLOW payloads the remote side can send: data.id,
\* data.meta.workflowId and data.trigger.input
TriggerMessages ==
    { [id |-> "run1", workflowId |-> "wf1", input |-> "x"],
      [id |-> "run2", workflowId |-> "wf2", input |-> "x"] }

(* ------------------------------- state --------------------------------- *)

VARIABLES
    socket,        \* the WebSocket: "none", "connecting", "open", "failed", "closed"
    connection,    \* this.#connection is set
    isConnected,   \* this.#isConnected
    serverRPC,     \* this.#serverRPC is set (the handler is registered with it)
    listenPc,      \* position of listen(): idle, connecting, initRPC, initHost, resolved, rejected
    listenError,   \* the message listen() rejected with
    hostPc,        \* position of #initializeHost: none, awaiting, sleeping, initialized, threw
    hostError,     \* the message #initializeHost threw
    sendAttempts,  \* serverRPC.send calls made by the #send of INITIALIZE_HOST
    sendTimeouts,  \* TimeoutErrors those calls met
    sendSleeps,    \* sleep(retryIntervalMs) calls completed by that #send
    sendFailures,  \* rejections of those calls that were no TimeoutError
    sendResponse,  \* what #send returned to #initializeHost, with the attempt it answers
    clock,         \* milliseconds #send has waited in sleep
    received,      \* number of TRIGGER_WORKFLOW messages received
    data,          \* data[i]: the payload of the i-th message
    pc,            \* pc[i]: idle, running, completeSent, errorSent, done, unhandled
    runCount,      \* runCount[i]: calls of the user's run function for message i
    runResult,     \* runResult[i]: how the run function settled
    outbound,      \* the serverRPC.send calls made so far
    apiKey,        \* the constructor's apiKey: options.apiKey ?? process.env.TRIGGER_API_KEY
    client,        \* the constructor returned ("constructed") or threw ("threw")
    process,       \* the worker process: "running" or "exited"
    logState       \* logState[i]: "inFlight" while a SEND_LOG of invocation i awaits its answer

vars ==
    << socket, connection, isConnected, serverRPC, listenPc, listenError,
       hostPc, hostError, sendAttempts, sendTimeouts, sendSleeps, sendFailures,
       sendResponse, clock, received, data, pc, runCount, runResult, outbound,
       apiKey, client, process, logState >>

procVars == << apiKey, client, process >>

connVars == << socket, connection, isConnected >>

hostVars ==
    << hostPc, hostError, sendAttempts, sendTimeouts, sendSleeps, sendFailures,
       sendResponse, clock >>

runVars == << received, data, pc, runCount, runResult, logState >>

Pending == [kind |-> "pending", value |-> "", error |-> NoError]

Init ==
    /\ \E option \in OptionApiKeys, env \in EnvApiKeys :
           /\ apiKey = Coalesce(option, env)
           /\ client = IF ConstructorThrows(Coalesce(option, env))
                         THEN "threw" ELSE "constructed"
    /\ process = "running"
    /\ logState = [i \in Invocations |-> "none"]
    /\ socket = "none"
    /\ connection = FALSE
    /\ isConnected = FALSE
    /\ serverRPC = FALSE
    /\ listenPc = "idle"
    /\ listenError = ""
    /\ hostPc = "none"
    /\ hostError = ""
    /\ sendAttempts = 0
    /\ sendTimeouts = 0
    /\ sendSleeps = 0
    /\ sendFailures = 0
    /\ sendResponse = [type |-> "none", message |-> "", attempt |-> 0]
    /\ clock = 0
    /\ received = 0
    /\ data = [i \in Invocations |-> NoData]
    /\ pc = [i \in Invocations |-> "idle"]
    /\ runCount = [i \in Invocations |-> 0]
    /\ runResult = [i \in Invocations |-> Pending]
    /\ outbound = {}

(* --------------------------- the RPC channel --------------------------- *)

CallsOf(o) == { c \in outbound : c.origin = o }

\* serverRPC.send(methodName, request) issued by the chain `o`
Call(o, methodName, request) ==
    [origin |-> o, seq |-> Cardinality(CallsOf(o)) + 1,
     method |-> methodName, request |-> request]

(* ------------------------------ listen() ------------------------------- *)

\* listen() up to `await connection.connect()` in #initializeConnection: the
\* HostConnection over a new WebSocket is built and onClose is attached.
Listen ==
    /\ process = "running"
    /\ client = "constructed"
    /\ listenPc = "idle"
    /\ socket' = "connecting"
    /\ listenPc' = "connecting"
    /\ UNCHANGED << connection, isConnected, serverRPC, listenError, outbound >>
    /\ UNCHANGED hostVars
    /\ UNCHANGED runVars
    /\ UNCHANGED procVars

\* connection.connect() resolves: this.#connection and this.#isConnected are set.
ConnectResolves ==
    /\ process = "running"
    /\ listenPc = "connecting"
    /\ socket = "connecting"
    /\ socket' = "open"
    /\ connection' = TRUE
    /\ isConnected' = TRUE
    /\ listenPc' = "initRPC"
    /\ UNCHANGED << serverRPC, listenError, outbound >>
    /\ UNCHANGED hostVars
    /\ UNCHANGED runVars
    /\ UNCHANGED procVars

\* a listen() that catches the failure of connect() and goes on
ConnectRejectsSwallowed ==
    /\ process = "running"
    /\ listenPc = "connecting"
    /\ socket = "connecting"
    /\ socket' = "failed"
    /\ listenPc' = "initRPC"
    /\ UNCHANGED << connection, isConnected, serverRPC, listenError, outbound >>
    /\ UNCHANGED hostVars
    /\ UNCHANGED runVars
    /\ UNCHANGED procVars

\* connection.connect() rejects: the await in listen() rethrows.
ConnectRejects ==
    /\ process = "running"
    /\ listenPc = "connecting"
    /\ socket = "connecting"
    /\ socket' = "failed"
    /\ listenPc' = "rejected"
    /\ listenError' = "connect failed"
    /\ UNCHANGED << connection, isConnected, serverRPC, outbound >>
    /\ UNCHANGED hostVars
    /\ UNCHANGED runVars
    /\ UNCHANGED procVars

\* an #initializeRPC that builds the channel but never stores it
InitializeRPCNotStored ==
    /\ process = "running"
    /\ listenPc = "initRPC"
    /\ listenPc' = "initHost"
    /\ UNCHANGED << serverRPC, listenError, outbound >>
    /\ UNCHANGED connVars
    /\ UNCHANGED hostVars
    /\ UNCHANGED runVars
    /\ UNCHANGED procVars

\* this.#initializeRPC(), not awaited: a throw inside it is a rejected promise
\* nobody reads, and listen() goes on.
InitializeRPC ==
    /\ process = "running"
    /\ listenPc = "initRPC"
    /\ serverRPC' = IF connection THEN TRUE ELSE serverRPC
    /\ listenPc' = "initHost"
    /\ UNCHANGED << listenError, outbound >>
    /\ UNCHANGED connVars
    /\ UNCHANGED hostVars
    /\ UNCHANGED runVars
    /\ UNCHANGED procVars

InitializeHostRequest ==
    [apiKey |-> apiKey, workflowId |-> TriggerId, workflowName |-> TriggerName]

\* this.#initializeHost(), not awaited: it runs up to the first await of #send,
\* which has made the first serverRPC.send, and listen() returns.
InitializeHost ==
    /\ process = "running"
    /\ listenPc = "initHost"
    /\ IF connection /\ serverRPC
         THEN /\ outbound' = outbound \cup
                    {Call(HostOrigin, "INITIALIZE_HOST", InitializeHostRequest)}
              /\ sendAttempts' = sendAttempts + 1
              /\ hostPc' = "awaiting"
              /\ hostError' = hostError
         ELSE /\ hostPc' = "threw"
              /\ hostError' = IF connection
                                THEN "Cannot initialize host without an RPC connection"
                                ELSE "Cannot initialize host without a connection"
              /\ UNCHANGED << outbound, sendAttempts >>
    /\ listenPc' = "resolved"
    /\ UNCHANGED << serverRPC, listenError >>
    /\ UNCHANGED << sendTimeouts, sendSleeps, sendFailures, sendResponse, clock >>
    /\ UNCHANGED connVars
    /\ UNCHANGED runVars
    /\ UNCHANGED procVars

\* an onClose handler that drops the runs in progress
SocketClosesAbortsRuns ==
    /\ process = "running"
    /\ socket = "open"
    /\ listenPc \notin {"initRPC", "initHost"}
    /\ socket' = "closed"
    /\ pc' = [i \in Invocations |-> IF pc[i] = "running" THEN "done" ELSE pc[i]]
    /\ UNCHANGED << connection, isConnected, serverRPC, listenPc, listenError, outbound >>
    /\ UNCHANGED << received, data, runCount, runResult >>
    /\ UNCHANGED hostVars
    /\ UNCHANGED logState
    /\ UNCHANGED procVars

\* the transport's close event: the onClose handler writes to console.error.
SocketCloses ==
    /\ process = "running"
    /\ socket = "open"
    /\ listenPc \notin {"initRPC", "initHost"}
    /\ socket' = "closed"
    /\ UNCHANGED << connection, isConnected, serverRPC, listenPc, listenError, outbound >>
    /\ UNCHANGED hostVars
    /\ UNCHANGED runVars
    /\ UNCHANGED procVars

(* ------------------------------- #send --------------------------------- *)

\* a sleep whose promise resolves at once
sleepNoWait(ms, now) == now

\* sleep(ms): the promise resolves once ms milliseconds have passed.
sleep(ms, now) == now + ms

\* `return await this.#serverRPC.send(...)` got a response; #initializeHost
\* throws on an error-typed one.
HostSendResponds(r) ==
    /\ process = "running"
    /\ hostPc = "awaiting"
    /\ socket = "open"
    /\ sendResponse' = [type |-> r.type, message |-> r.message, attempt |-> sendAttempts]
    /\ IF r.type = "error"
         THEN hostPc' = "threw" /\ hostError' = r.message
         ELSE hostPc' = "initialized" /\ hostError' = hostError
    /\ UNCHANGED << sendAttempts, sendTimeouts, sendSleeps, sendFailures, clock >>
    /\ UNCHANGED << serverRPC, listenPc, listenError, outbound >>
    /\ UNCHANGED connVars
    /\ UNCHANGED runVars
    /\ UNCHANGED procVars

\* the catch of #send: a TimeoutError starts the sleep, anything else is rethrown.
HostSendRejects(err) ==
    /\ process = "running"
    /\ hostPc = "awaiting"
    /\ IsTimeoutError(err) => sendTimeouts < MaxTimeouts
    /\ sendTimeouts' = IF err = TimeoutErr THEN sendTimeouts + 1 ELSE sendTimeouts
    /\ sendFailures' = IF err = TimeoutErr THEN sendFailures ELSE sendFailures + 1
    /\ IF IsTimeoutError(err)
         THEN hostPc' = "sleeping" /\ hostError' = hostError
         ELSE hostPc' = "threw" /\ hostError' = err.message
    /\ UNCHANGED << sendAttempts, sendSleeps, sendResponse, clock >>
    /\ UNCHANGED << serverRPC, listenPc, listenError, outbound >>
    /\ UNCHANGED connVars
    /\ UNCHANGED runVars
    /\ UNCHANGED procVars

\* a loop whose wait grows with every retry
HostSendRetriesBackoffGrows ==
    /\ process = "running"
    /\ hostPc = "sleeping"
    /\ clock' = sleep(retryIntervalMs * (sendSleeps + 1), clock)
    /\ sendSleeps' = sendSleeps + 1
    /\ outbound' = outbound \cup
           {Call(HostOrigin, "INITIALIZE_HOST", InitializeHostRequest)}
    /\ sendAttempts' = sendAttempts + 1
    /\ hostPc' = "awaiting"
    /\ UNCHANGED << hostError, sendTimeouts, sendFailures, sendResponse >>
    /\ UNCHANGED << serverRPC, listenPc, listenError >>
    /\ UNCHANGED connVars
    /\ UNCHANGED runVars
    /\ UNCHANGED procVars

\* a loop that gives up once it has slept and finds its attempt timed out again
HostSendRetriesGivesUp ==
    /\ process = "running"
    /\ hostPc = "sleeping"
    /\ IF sendSleeps = 0
         THEN /\ clock' = sleep(retryIntervalMs, clock)
              /\ sendSleeps' = sendSleeps + 1
              /\ outbound' = outbound \cup
                     {Call(HostOrigin, "INITIALIZE_HOST", InitializeHostRequest)}
              /\ sendAttempts' = sendAttempts + 1
              /\ hostPc' = "awaiting"
         ELSE /\ hostPc' = "gaveUp"
              /\ UNCHANGED << clock, sendSleeps, outbound, sendAttempts >>
    /\ UNCHANGED << hostError, sendTimeouts, sendFailures, sendResponse >>
    /\ UNCHANGED << serverRPC, listenPc, listenError >>
    /\ UNCHANGED connVars
    /\ UNCHANGED runVars
    /\ UNCHANGED procVars

\* sleep(this.#retryIntervalMs) is over: the loop makes the next attempt.
HostSendRetries ==
    /\ process = "running"
    /\ hostPc = "sleeping"
    /\ clock' = sleep(retryIntervalMs, clock)
    /\ sendSleeps' = sendSleeps + 1
    /\ outbound' = outbound \cup
           {Call(HostOrigin, "INITIALIZE_HOST", InitializeHostRequest)}
    /\ sendAttempts' = sendAttempts + 1
    /\ hostPc' = "awaiting"
    /\ UNCHANGED << hostError, sendTimeouts, sendFailures, sendResponse >>
    /\ UNCHANGED << serverRPC, listenPc, listenError >>
    /\ UNCHANGED connVars
    /\ UNCHANGED runVars
    /\ UNCHANGED procVars

(* ---------------------- the TRIGGER_WORKFLOW handler ------------------- *)

\* the run identifier read from the latest message instead of the closure's
CtxIdLatest(i) == data[received].id

\* data.id and data.meta.workflowId as the closures of invocation i see them
CtxId(i) == data[i].id

CtxWorkflowId(i) == data[i].workflowId

\* a parse that keeps the message of whatever was thrown
parseAnyErrorKeepsMessage(error) ==
    IF error.isError
      THEN [name |-> error.name, message |-> error.message, stackTrace |-> error.stack]
      ELSE [name |-> "UnknownError", message |-> error.message]

\* a parse that goes by the fields the thrown value has, not by its class
parseAnyErrorByFields(error) ==
    IF error.name # "" /\ error.message # ""
      THEN [name |-> error.name, message |-> error.message, stackTrace |-> error.stack]
      ELSE [name |-> "UnknownError", message |-> "An unknown error occurred"]

\* a parse that never looks at the thrown value
parseAnyErrorGeneric(error) ==
    [name |-> "UnknownError", message |-> "An unknown error occurred"]

parseAnyError(error) ==
    IF error.isError
      THEN [name |-> error.name, message |-> error.message, stackTrace |-> error.stack]
      ELSE [name |-> "UnknownError", message |-> "An unknown error occurred"]

CompleteCall(i, output) ==
    Call(i, "COMPLETE_WORKFLOW_RUN",
         [id |-> CtxId(i), output |-> JSONstringify(output),
          workflowId |-> CtxWorkflowId(i)])

\* the .catch callback: the error is parsed and reported
ErrorCall(i, anyError) ==
    Call(i, "SEND_WORKFLOW_ERROR",
         [id |-> CtxId(i), workflowId |-> CtxWorkflowId(i),
          error |-> parseAnyError(anyError)])

\* a TRIGGER_WORKFLOW message arrives: the context is built and run is called.
TriggerWorkflow(msg) ==
    /\ process = "running"
    /\ serverRPC
    /\ socket = "open"
    /\ listenPc = "resolved"
    /\ received < MaxInvocations
    /\ \A j \in Invocations : data[j].id # msg.id
    /\ received' = received + 1
    /\ data' = [data EXCEPT ![received + 1] = msg]
    /\ pc' = [pc EXCEPT ![received + 1] = "running"]
    /\ runCount' = [runCount EXCEPT ![received + 1] = @ + 1]
    /\ UNCHANGED << runResult, serverRPC, listenPc, listenError, outbound >>
    /\ UNCHANGED connVars
    /\ UNCHANGED hostVars
    /\ UNCHANGED logState
    /\ UNCHANGED procVars

CtxCalls == { c \in outbound : c.method \in {"SEND_LOG", "SEND_EVENT"} }

\* the user code calls ctx.logger and awaits the call: the ContextLogger
\* callback sends SEND_LOG and awaits its answer.
CtxLog(i) ==
    /\ process = "running"
    /\ pc[i] = "running"
    /\ logState[i] = "none"
    /\ Cardinality(CtxCalls) < MaxCtxCalls
    /\ outbound' = outbound \cup
           {Call(i, "SEND_LOG",
                 [id |-> CtxId(i),
                  log |-> [level |-> "info", message |-> "m", properties |-> "{}"]])}
    /\ logState' = [logState EXCEPT ![i] = "inFlight"]
    /\ UNCHANGED << received, data, pc, runCount, runResult >>
    /\ UNCHANGED << serverRPC, listenPc, listenError >>
    /\ UNCHANGED connVars
    /\ UNCHANGED hostVars
    /\ UNCHANGED procVars

\* the SEND_LOG of invocation i got its response: the logger call resolves.
LogSendResponds(i) ==
    /\ process = "running"
    /\ logState[i] = "inFlight"
    /\ socket = "open"
    /\ logState' = [logState EXCEPT ![i] = "none"]
    /\ UNCHANGED << received, data, pc, runCount, runResult >>
    /\ UNCHANGED << serverRPC, listenPc, listenError, outbound >>
    /\ UNCHANGED connVars
    /\ UNCHANGED hostVars
    /\ UNCHANGED procVars

\* the SEND_LOG of invocation i rejects, and the user code has put the logger
\* call in a try/catch: the run goes on.
LogSendRejectsCaught(i, err) ==
    /\ process = "running"
    /\ logState[i] = "inFlight"
    /\ err \in SendErrors
    /\ logState' = [logState EXCEPT ![i] = "none"]
    /\ UNCHANGED << received, data, pc, runCount, runResult >>
    /\ UNCHANGED << serverRPC, listenPc, listenError, outbound >>
    /\ UNCHANGED connVars
    /\ UNCHANGED hostVars
    /\ UNCHANGED procVars

\* the SEND_LOG of invocation i rejects: `await serverRPC.send("SEND_LOG", ...)`
\* rethrows, the logger call that the run awaits rejects with err, and so does
\* the run; the .catch callback reports err.
LogSendRejectsInRun(i, err) ==
    /\ process = "running"
    /\ logState[i] = "inFlight"
    /\ pc[i] = "running"
    /\ logState' = [logState EXCEPT ![i] = "none"]
    /\ runResult' = [runResult EXCEPT ![i] =
                        [kind |-> "rejected", value |-> "", error |-> err]]
    /\ outbound' = outbound \cup {ErrorCall(i, err)}
    /\ pc' = [pc EXCEPT ![i] = "errorSent"]
    /\ UNCHANGED << received, data, runCount, serverRPC, listenPc, listenError >>
    /\ UNCHANGED connVars
    /\ UNCHANGED hostVars
    /\ UNCHANGED procVars

\* the user code calls ctx.fireEvent: SEND_EVENT is sent.
CtxFireEvent(i) ==
    /\ process = "running"
    /\ pc[i] = "running"
    /\ logState[i] = "none"
    /\ Cardinality(CtxCalls) < MaxCtxCalls
    /\ outbound' = outbound \cup
           {Call(i, "SEND_EVENT", [id |-> CtxId(i), event |-> "e"])}
    /\ UNCHANGED << serverRPC, listenPc, listenError >>
    /\ UNCHANGED connVars
    /\ UNCHANGED hostVars
    /\ UNCHANGED runVars
    /\ UNCHANGED procVars

\* run(...) resolves with v: the .then callback stringifies the output and
\* sends COMPLETE_WORKFLOW_RUN; a throw of JSON.stringify goes to the .catch.
RunResolves(i, v) ==
    /\ process = "running"
    /\ pc[i] = "running"
    /\ logState[i] = "none"
    /\ runResult' = [runResult EXCEPT ![i] =
                        [kind |-> "resolved", value |-> v, error |-> NoError]]
    /\ IF StringifyThrows(v)
         THEN /\ outbound' = outbound \cup {ErrorCall(i, StringifyErr)}
              /\ pc' = [pc EXCEPT ![i] = "errorSent"]
         ELSE /\ outbound' = outbound \cup {CompleteCall(i, v)}
              /\ pc' = [pc EXCEPT ![i] = "completeSent"]
    /\ UNCHANGED << received, data, runCount, serverRPC, listenPc, listenError >>
    /\ UNCHANGED connVars
    /\ UNCHANGED hostVars
    /\ UNCHANGED logState
    /\ UNCHANGED procVars

\* run(...) rejects with e: the .then callback is skipped, the .catch reports.
RunRejects(i, e) ==
    /\ process = "running"
    /\ pc[i] = "running"
    /\ logState[i] = "none"
    /\ runResult' = [runResult EXCEPT ![i] =
                        [kind |-> "rejected", value |-> "", error |-> e]]
    /\ outbound' = outbound \cup {ErrorCall(i, e)}
    /\ pc' = [pc EXCEPT ![i] = "errorSent"]
    /\ UNCHANGED << received, data, runCount, serverRPC, listenPc, listenError >>
    /\ UNCHANGED connVars
    /\ UNCHANGED hostVars
    /\ UNCHANGED logState
    /\ UNCHANGED procVars

\* the send of COMPLETE_WORKFLOW_RUN got its response: the chain is fulfilled.
CompleteResponds(i) ==
    /\ process = "running"
    /\ pc[i] = "completeSent"
    /\ socket = "open"
    /\ pc' = [pc EXCEPT ![i] = "done"]
    /\ UNCHANGED << received, data, runCount, runResult >>
    /\ UNCHANGED << serverRPC, listenPc, listenError, outbound >>
    /\ UNCHANGED connVars
    /\ UNCHANGED hostVars
    /\ UNCHANGED logState
    /\ UNCHANGED procVars

\* a handler that runs the workflow again when the completion cannot be sent
CompleteRejectsRerun(i, err) ==
    /\ process = "running"
    /\ pc[i] = "completeSent"
    /\ pc' = [pc EXCEPT ![i] = "running"]
    /\ runCount' = [runCount EXCEPT ![i] = @ + 1]
    /\ runResult' = [runResult EXCEPT ![i] = Pending]
    /\ UNCHANGED << received, data >>
    /\ UNCHANGED << serverRPC, listenPc, listenError, outbound >>
    /\ UNCHANGED connVars
    /\ UNCHANGED hostVars
    /\ UNCHANGED logState
    /\ UNCHANGED procVars

\* the send of COMPLETE_WORKFLOW_RUN rejects: the promise of .then is rejected,
\* so the .catch callback runs with the send's error.
CompleteRejects(i, err) ==
    /\ process = "running"
    /\ pc[i] = "completeSent"
    /\ outbound' = outbound \cup {ErrorCall(i, err)}
    /\ pc' = [pc EXCEPT ![i] = "errorSent"]
    /\ UNCHANGED << received, data, runCount, runResult >>
    /\ UNCHANGED << serverRPC, listenPc, listenError >>
    /\ UNCHANGED connVars
    /\ UNCHANGED hostVars
    /\ UNCHANGED logState
    /\ UNCHANGED procVars

\* the send of SEND_WORKFLOW_ERROR got its response: the chain is fulfilled.
ErrorResponds(i) ==
    /\ process = "running"
    /\ pc[i] = "errorSent"
    /\ socket = "open"
    /\ pc' = [pc EXCEPT ![i] = "done"]
    /\ UNCHANGED << received, data, runCount, runResult >>
    /\ UNCHANGED << serverRPC, listenPc, listenError, outbound >>
    /\ UNCHANGED connVars
    /\ UNCHANGED hostVars
    /\ UNCHANGED logState
    /\ UNCHANGED procVars

\* the send of SEND_WORKFLOW_ERROR rejects: nothing handles the rejection.
ErrorRejects(i, err) ==
    /\ process = "running"
    /\ pc[i] = "errorSent"
    /\ err \in SendErrors
    /\ pc' = [pc EXCEPT ![i] = "unhandled"]
    /\ UNCHANGED << received, data, runCount, runResult >>
    /\ UNCHANGED << serverRPC, listenPc, listenError, outbound >>
    /\ UNCHANGED connVars
    /\ UNCHANGED hostVars
    /\ UNCHANGED logState
    /\ UNCHANGED procVars

(* ------------------------ unhandled rejections ------------------------- *)

\* The promise of #initializeHost() is dropped by listen(), and the promise of
\* run().then().catch() is dropped by the handler.  When one of them rejects,
\* the rejection is unhandled: Node.js 15 and later end the process on it
\* unless the program has installed an unhandledRejection handler, earlier
\* versions print a warning.  Both outcomes are possible.
ProcessExitsOnHandshake ==
    /\ process = "running"
    /\ hostPc = "threw"
    /\ process' = "exitedByHandshake"
    /\ UNCHANGED << apiKey, client, serverRPC, listenPc, listenError, outbound >>
    /\ UNCHANGED connVars
    /\ UNCHANGED hostVars
    /\ UNCHANGED runVars

ProcessExitsOnRun(i) ==
    /\ process = "running"
    /\ pc[i] = "unhandled"
    /\ process' = IF runResult[i].kind = "rejected"
                   THEN "exitedByFailedRun" ELSE "exitedByRun"
    /\ UNCHANGED << apiKey, client, serverRPC, listenPc, listenError, outbound >>
    /\ UNCHANGED connVars
    /\ UNCHANGED hostVars
    /\ UNCHANGED runVars

(* --------------------------- specification ----------------------------- *)

Next ==
    \/ Listen
    \/ ConnectResolves
    \/ ConnectRejects
    \/ InitializeRPC
    \/ InitializeHost
    \/ SocketCloses
    \/ \E r \in HostResponses : HostSendResponds(r)
    \/ \E err \in SendErrors : HostSendRejects(err)
    \/ HostSendRetries
    \/ \E msg \in TriggerMessages : TriggerWorkflow(msg)
    \/ \E i \in Invocations : CtxLog(i)
    \/ \E i \in Invocations : LogSendResponds(i)
    \/ \E i \in Invocations, err \in SendErrors : LogSendRejectsCaught(i, err)
    \/ \E i \in Invocations, err \in SendErrors : LogSendRejectsInRun(i, err)
    \/ \E i \in Invocations : CtxFireEvent(i)
    \/ \E i \in Invocations, v \in Values : RunResolves(i, v)
    \/ \E i \in Invocations, e \in Thrown : RunRejects(i, e)
    \/ \E i \in Invocations : CompleteResponds(i)
    \/ \E i \in Invocations, err \in SendErrors : CompleteRejects(i, err)
    \/ \E i \in Invocations : ErrorResponds(i)
    \/ \E i \in Invocations, err \in SendErrors : ErrorRejects(i, err)

Spec == Init /\ [][Next]_vars

\* The worker with the end of the process on an unhandled rejection.  A
\* process that has exited takes no step, so the states of SpecExit are the
\* states of Spec and their copies with the process exited.
NextExit ==
    \/ Next
    \/ ProcessExitsOnHandshake
    \/ \E i \in Invocations : ProcessExitsOnRun(i)

SpecExit == Init /\ [][NextExit]_vars

\* the remote side answers an INITIALIZE_HOST attempt within the wait window
HostAnswered == \E r \in HostResponses : HostSendResponds(r)

\* The steps the handshake takes and the steps that can end the process under
\* it: all of NextExit but the ctx.logger and ctx.fireEvent calls of a run,
\* which leave the handshake and the process alone.
NextHandshake ==
    \/ Listen
    \/ ConnectResolves
    \/ ConnectRejects
    \/ InitializeRPC
    \/ InitializeHost
    \/ SocketCloses
    \/ HostAnswered
    \/ \E err \in SendErrors : HostSendRejects(err)
    \/ HostSendRetries
    \/ \E msg \in TriggerMessages : TriggerWorkflow(msg)
    \/ \E i \in Invocations, v \in Values : RunResolves(i, v)
    \/ \E i \in Invocations, e \in Thrown : RunRejects(i, e)
    \/ \E i \in Invocations : CompleteResponds(i)
    \/ \E i \in Invocations, err \in SendErrors : CompleteRejects(i, err)
    \/ \E i \in Invocations : ErrorResponds(i)
    \/ \E i \in Invocations, err \in SendErrors : ErrorRejects(i, err)
    \/ ProcessExitsOnHandshake
    \/ \E i \in Invocations : ProcessExitsOnRun(i)

\* Fair scheduling of the handshake: the timer of sleep() fires, so the loop
\* of #send goes on whenever it sleeps (weak fairness), and the remote side
\* answers one of the attempts when attempts keep being made (strong
\* fairness: an attempt awaits its answer only between two sleeps).
LiveSpec ==
    /\ Init
    /\ [][NextHandshake]_vars
    /\ WF_vars(HostSendRetries)
    /\ SF_vars(HostAnswered)

(* ------------------------------ properties ----------------------------- *)

OutcomeMethods == {"COMPLETE_WORKFLOW_RUN", "SEND_WORKFLOW_ERROR"}

\* the calls of method m that carry the run identifier id
CallsFor(id, m) == { c \in outbound : c.method = m /\ c.request.id = id }

\* the outcome-reporting calls issued by invocation i
OutcomeCalls(i) == { c \in CallsOf(i) : c.method \in OutcomeMethods }

Settled(i) == pc[i] \in {"done", "unhandled"}

\* C1: a run that resolves with a serialisable V has exactly one
\* COMPLETE_WORKFLOW_RUN call carrying JSON.stringify(V) for its run
\* identifier and no SEND_WORKFLOW_ERROR call, whatever the sends do.
C1_ExactlyOneComplete ==
    \A i \in Invocations :
        (runResult[i].kind = "resolved" /\ ~StringifyThrows(runResult[i].value)) =>
            /\ Cardinality(CallsFor(data[i].id, "COMPLETE_WORKFLOW_RUN")) = 1
            /\ \A c \in CallsFor(data[i].id, "COMPLETE_WORKFLOW_RUN") :
                   c.request.output = JSONstringify(runResult[i].value)
            /\ CallsFor(data[i].id, "SEND_WORKFLOW_ERROR") = {}

\* C2: listen() has resolved only if the handshake response was success-typed,
\* and an error-typed handshake response makes listen() reject with its message.
C2_ListenFollowsHandshake ==
    /\ listenPc = "resolved" => sendResponse.type = "success"
    /\ sendResponse.type = "error" =>
           listenPc = "rejected" /\ listenError = sendResponse.message

\* C3: no outcome-reporting call is issued before the run function has
\* settled, and an invocation issues at most one outcome-reporting call.
C3_AtMostOneOutcome ==
    \A i \in Invocations :
        /\ pc[i] \in {"idle", "running"} => OutcomeCalls(i) = {}
        /\ Cardinality(OutcomeCalls(i)) <= 1

\* C3, the part that holds: no outcome-reporting call before the run settles.
C3_NoOutcomeBeforeSettle ==
    \A i \in Invocations :
        pc[i] \in {"idle", "running"} =>
            runResult[i].kind = "pending" /\ OutcomeCalls(i) = {}

\* C4: when an outcome-reporting send fails with a TimeoutError, the chain
\* does not end and the only call it may issue next is the same call again.
C4_OutcomeRetriedOnTimeout ==
    [][\A i \in Invocations :
          (CompleteRejects(i, TimeoutErr) \/ ErrorRejects(i, TimeoutErr)) =>
              /\ pc'[i] # "unhandled"
              /\ \A c \in outbound' \ outbound :
                     \E b \in outbound :
                         /\ b.origin = c.origin
                         /\ b.seq + 1 = c.seq
                         /\ b.method = c.method
                         /\ b.request = c.request]_vars

\* C5: a run that rejects with an Error of name X and message Y has exactly
\* one SEND_WORKFLOW_ERROR call for its run identifier, carrying that name,
\* message and stack, and no COMPLETE_WORKFLOW_RUN call.
C5_ExactlyOneError ==
    \A i \in Invocations :
        (runResult[i].kind = "rejected" /\ runResult[i].error.isError) =>
            /\ Cardinality(CallsFor(data[i].id, "SEND_WORKFLOW_ERROR")) = 1
            /\ \A c \in CallsFor(data[i].id, "SEND_WORKFLOW_ERROR") :
                   c.request.error =
                       [name |-> runResult[i].error.name,
                        message |-> runResult[i].error.message,
                        stackTrace |-> runResult[i].error.stack]
            /\ CallsFor(data[i].id, "COMPLETE_WORKFLOW_RUN") = {}

C5_Witness ==
    \E i \in Invocations :
        /\ runResult[i].kind = "rejected"
        /\ runResult[i].error = UserError
        /\ Settled(i)

\* C6: a #send call that met k timeouts before its response made k + 1
\* attempts with one backoff wait between consecutive attempts, waited at
\* least k * retryIntervalMs, and returned the last attempt's response; a
\* timeout is never what #send throws.
C6_RetryTransparent ==
    /\ hostPc = "awaiting" => sendSleeps = sendAttempts - 1
    /\ hostPc = "threw" => hostError # TimeoutErr.message
    /\ sendResponse.type # "none" =>
           /\ sendAttempts = sendTimeouts + 1
           /\ Cardinality(CallsOf(HostOrigin)) = sendAttempts
           /\ sendSleeps = sendTimeouts
           /\ clock >= sendTimeouts * retryIntervalMs
           /\ sendResponse.attempt = sendAttempts

C6_Witness ==
    /\ hostPc = "initialized"
    /\ sendResponse.type = "success"
    /\ sendTimeouts = 2
    /\ sendAttempts = 3

\* C7: a failure of a #send attempt that is no TimeoutError is thrown to the
\* caller at once: no wait and no attempt follows it, so the attempts are one
\* more than the timeouts before it.
C7_NoRetryOnOtherFailure ==
    sendFailures >= 1 =>
        /\ sendFailures = 1
        /\ hostPc = "threw"
        /\ hostError = ValidationErr.message
        /\ sendAttempts = sendTimeouts + 1
        /\ Cardinality(CallsOf(HostOrigin)) = sendAttempts
        /\ sendSleeps = sendTimeouts
        /\ sendResponse.type = "none"

C7_Witness ==
    /\ sendFailures = 1
    /\ sendTimeouts = 0
    /\ sendAttempts = 1
    /\ hostPc = "threw"

\* C8: every SEND_LOG, SEND_EVENT, COMPLETE_WORKFLOW_RUN and
\* SEND_WORKFLOW_ERROR call carries the run identifier of the invocation that
\* issued it, and the outcome calls carry its workflow identifier.
C8_NoCrossDelivery ==
    \A c \in outbound :
        c.origin \in Invocations =>
            /\ c.request.id = data[c.origin].id
            /\ \A j \in Invocations : j # c.origin => c.request.id # data[j].id
            /\ c.method \in OutcomeMethods =>
                   c.request.workflowId = data[c.origin].workflowId

C8_Witness ==
    /\ received = 2
    /\ \E c \in CallsOf(2) : c.method \in {"SEND_LOG", "SEND_EVENT"}
    /\ OutcomeCalls(1) # {}
    /\ OutcomeCalls(2) # {}
    /\ pc[1] = "errorSent"

\* C9: after the transport's close event the runtime does not record itself
\* as connected.
C9_CloseClearsConnected ==
    socket = "closed" => ~isConnected

\* C10: the run function is called exactly once for each received
\* TRIGGER_WORKFLOW message, whatever happens to the outcome sends.
C10_RunOnce ==
    \A i \in Invocations :
        runCount[i] = IF i <= received THEN 1 ELSE 0

C10_Witness ==
    \E i \in Invocations :
        /\ pc[i] = "unhandled"
        /\ runResult[i].kind = "resolved"
        /\ Cardinality(OutcomeCalls(i)) = 2
        /\ runCount[i] = 1

UnknownErrorDescription ==
    [name |-> "UnknownError", message |-> "An unknown error occurred"]

\* C12: when the run rejects with a value that is no Error, the
\* SEND_WORKFLOW_ERROR call carries exactly the unknown-error description,
\* which has no stack trace.
C12_NonErrorIsUnknown ==
    \A i \in Invocations :
        (runResult[i].kind = "rejected" /\ ~runResult[i].error.isError) =>
            /\ CallsFor(data[i].id, "SEND_WORKFLOW_ERROR") # {}
            /\ \A c \in CallsFor(data[i].id, "SEND_WORKFLOW_ERROR") :
                   /\ c.request.error = UnknownErrorDescription
                   /\ DOMAIN c.request.error = {"name", "message"}

C12_Witness ==
    \E i \in Invocations :
        /\ runResult[i].kind = "rejected"
        /\ runResult[i].error = PlainString
        /\ pc[i] = "done"

\* the thrown value exposes a name, a message and a trace
Exposes(error) == error.name # "" /\ error.message # "" /\ error.stack # ""

\* C13 as stated: every thrown value that exposes a name, a message and a
\* trace has them carried by the SEND_WORKFLOW_ERROR call.
C13_ExposedFieldsPreserved ==
    \A i \in Invocations :
        (runResult[i].kind = "rejected" /\ Exposes(runResult[i].error)) =>
            \A c \in CallsFor(data[i].id, "SEND_WORKFLOW_ERROR") :
                /\ c.request.error.name = runResult[i].error.name
                /\ c.request.error.message = runResult[i].error.message

\* C13 amended: name, message and trace are carried when the thrown value is
\* an instance of Error; every other thrown value, also one that exposes a
\* name, a message and a trace, is reported as the unknown error.
C13_PreservedForErrorInstances ==
    \A i \in Invocations :
        runResult[i].kind = "rejected" =>
            \A c \in CallsFor(data[i].id, "SEND_WORKFLOW_ERROR") :
                IF runResult[i].error.isError
                  THEN /\ c.request.error.name = runResult[i].error.name
                       /\ c.request.error.message = runResult[i].error.message
                       /\ c.request.error.stackTrace = runResult[i].error.stack
                  ELSE c.request.error.name = "UnknownError"

C13_Witness ==
    \E i \in Invocations :
        /\ runResult[i].kind = "rejected"
        /\ runResult[i].error = PlainObject
        /\ Exposes(runResult[i].error)
        /\ \E c \in CallsFor(data[i].id, "SEND_WORKFLOW_ERROR") :
               c.request.error.name = "UnknownError"

\* C16: during listen() the connection is open before the RPC channel with
\* the TRIGGER_WORKFLOW handler is built, and the channel is built before
\* INITIALIZE_HOST is sent.
C16_StartOrder ==
    /\ listenPc \in {"idle", "connecting"} =>
           ~connection /\ ~serverRPC /\ CallsOf(HostOrigin) = {}
    /\ listenPc = "initRPC" =>
           connection /\ socket = "open" /\ ~serverRPC /\ CallsOf(HostOrigin) = {}
    /\ listenPc = "initHost" =>
           connection /\ socket = "open" /\ serverRPC /\ CallsOf(HostOrigin) = {}
    /\ serverRPC => connection
    /\ CallsOf(HostOrigin) # {} => connection /\ serverRPC
    /\ received > 0 => serverRPC

C16_Witness ==
    /\ listenPc = "resolved"
    /\ connection
    /\ serverRPC
    /\ Cardinality(CallsOf(HostOrigin)) = 1
    /\ hostPc = "awaiting"

\* C17: a close event does not end a run in progress: with the connection
\* closed, every received invocation is either still running with no outcome
\* call, or its run function has settled and its outcome call has been made.
C17_CloseDoesNotAbortRun ==
    socket = "closed" =>
        \A i \in Invocations :
            pc[i] # "idle" =>
                \/ /\ pc[i] = "running"
                   /\ runResult[i].kind = "pending"
                   /\ OutcomeCalls(i) = {}
                \/ /\ pc[i] # "running"
                   /\ runResult[i].kind # "pending"
                   /\ OutcomeCalls(i) # {}

C17_Witness ==
    /\ socket = "closed"
    /\ \E i \in Invocations : pc[i] = "running"
    /\ \E i \in Invocations :
           pc[i] \in {"completeSent", "errorSent"} /\ OutcomeCalls(i) # {}

\* C19: when opening the connection fails, listen() rejects, nothing of the
\* runtime is set up, nothing is sent, and the connection is not tried again.
C19_ConnectFailureLeavesDisconnected ==
    /\ [](socket = "failed" =>
             /\ listenPc = "rejected"
             /\ listenError # ""
             /\ ~isConnected
             /\ ~connection
             /\ ~serverRPC
             /\ hostPc = "none"
             /\ received = 0
             /\ outbound = {})
    /\ [][socket = "failed" => socket' = "failed" /\ listenPc' = "rejected"]_vars

C19_Witness ==
    /\ socket = "failed"
    /\ listenPc = "rejected"

\* C20: every attempt of one #send call sends the same method name and the
\* same request as the first one, and every wait between attempts lasts the
\* same retryIntervalMs.
C20_SameCallSameBackoff ==
    /\ \A c \in CallsOf(HostOrigin), d \in CallsOf(HostOrigin) :
           c.method = d.method /\ c.request = d.request
    /\ \A c \in CallsOf(HostOrigin) :
           c.method = "INITIALIZE_HOST" /\ c.seq \in 1 .. sendAttempts
    /\ clock = sendSleeps * retryIntervalMs

C20_Witness ==
    /\ Cardinality(CallsOf(HostOrigin)) = 3
    /\ sendSleeps = 2
    /\ clock = 2 * retryIntervalMs

C14_WorkerSurvivesRunFailure ==
    process # "exitedByFailedRun"

\* C18: without a credential in the apiKey option and in TRIGGER_API_KEY the
\* constructor throws, no connection is opened and no RPC call is sent.
C18_NoCredentialIsFatal ==
    apiKey = Undefined =>
        /\ client = "threw"
        /\ listenPc = "idle"
        /\ socket = "none"
        /\ ~connection
        /\ ~serverRPC
        /\ outbound = {}

C18_Witness ==
    /\ apiKey = Undefined
    /\ client = "threw"
    /\ socket = "none"

\* C15: the registration is delivered at least once.  Under fair scheduling,
\* every timed-out INITIALIZE_HOST attempt is followed by another attempt
\* while the process lives, #send never leaves its sleep in any other way,
\* and an attempt that awaits its answer on an open connection leads to the
\* end of the handshake (completed, or thrown on an error response or on a
\* failure that is no timeout) however many attempts timed out before.
C15_RegistrationAtLeastOnce ==
    /\ (hostPc = "sleeping") ~> (hostPc = "awaiting" \/ process # "running")
    /\ [][hostPc = "sleeping" => hostPc' \in {"sleeping", "awaiting"}]_vars
    /\ (hostPc = "awaiting") ~>
           \/ hostPc \in {"initialized", "threw"}
           \/ socket # "open"
           \/ process # "running"

C15_Witness ==
    /\ process = "running"
    /\ hostPc = "initialized"
    /\ sendTimeouts >= 2
    /\ sendSleeps = sendTimeouts
    /\ Cardinality(CallsOf(HostOrigin)) = sendTimeouts + 1

====
